---------------------------- MODULE Spec2Model ----------------------------
(***************************************************************************)
(* A model of the MAGSAC benchmark harness (src/src/main.cpp): runTest and *)
(* the six per-scene evaluation functions.  The estimation engine, the     *)
(* estimators, OpenCV and the file system are collaborators: whatever they *)
(* return is a nondeterministic input; what the harness hands to them is   *)
(* recorded in `calls`, what it prints in `out`.                           *)
(*                                                                         *)
(* Real numbers are exact rationals <<n, d>> (d > 0); <<0, 0>> is NaN, the *)
(* result of 0.0 / 0.0.  A square root that is not rational is kept as the *)
(* triple <<n, d, 2>>, "the square root of n/d".                           *)
(***************************************************************************)
EXTENDS Integers, Sequences, FiniteSets, TLC

(***************************************************************************)
(* Bounds of the model.                                                    *)
(***************************************************************************)
\* the largest number of correspondences a scene file holds
MaxN == 2
\* each catalog of getAvailableTestScenes is cut to its first MaxScenes names
MaxScenes == 2

(***************************************************************************)
(* Exact arithmetic on the doubles of the program.                         *)
(***************************************************************************)
RECURSIVE GCD(_, _)
GCD(a, b) == IF b = 0 THEN a ELSE GCD(b, a % b)

Rat(n, d) == IF d = 0 THEN (IF n = 0 THEN <<0, 0>> ELSE <<1, 0>>)
             ELSE LET g == GCD(n, d) IN <<n \div g, d \div g>>

NaN == <<0, 0>>
Zero == <<0, 1>>
One == <<1, 1>>
Int2Rat(n) == <<n, 1>>

RatAdd(a, b) == IF a[2] = 0 THEN a ELSE IF b[2] = 0 THEN b
                ELSE Rat(a[1] * b[2] + b[1] * a[2], a[2] * b[2])
RatMul(a, b) == IF a = NaN \/ b = NaN THEN NaN ELSE Rat(a[1] * b[1], a[2] * b[2])
RatDiv(a, b) == IF a = NaN \/ b = NaN THEN NaN ELSE Rat(a[1] * b[2], a[2] * b[1])
\* a <= b on doubles: every comparison with NaN is false
RatLeq(a, b) == /\ a # NaN
                /\ b # NaN
                /\ a[1] * b[2] <= b[1] * a[2]

IsSquare(n) == \E k \in 0..n : k * k = n
ISqrt(n) == CHOOSE k \in 0..n : k * k = n
\* sqrt() of a non-negative double
Sqrt(a) == IF a = NaN THEN NaN
           ELSE IF IsSquare(a[1]) /\ IsSquare(a[2]) THEN <<ISqrt(a[1]), ISqrt(a[2])>>
           ELSE <<a[1], a[2], 2>>

RECURSIVE SumOver(_, _)
\* the sum of f[i] over the indices listed in idx, in order
SumOver(f, idx) == IF idx = <<>> THEN Zero
                   ELSE RatAdd(f[Head(idx)], SumOver(f, Tail(idx)))

Range(s) == {s[i] : i \in 1..Len(s)}

(***************************************************************************)
(* Program constants.                                                      *)
(***************************************************************************)
SceneTypes == {"FundamentalMatrixScene", "HomographyScene", "EssentialMatrixScene"}
Datasets == {"kusvod2", "extremeview", "homogr", "adelaidermf", "multih", "strecha"}

\* main: ransac_confidence = 0.99
ransac_confidence == <<99, 100>>
\* main: the three drawing thresholds (3.00, 1.00, 1.00)
DrawingThresholds == {<<3, 1>>, <<1, 1>>}
\* runTest: the maximum thresholds it gives MAGSAC (50.0 and 5.0)
MaximumThresholds == {<<50, 1>>, <<5, 1>>}
\* runTest: the drawing threshold it gives testHomographyFitting (2.5)
HomographyDrawingThreshold == <<5, 2>>
\* the refinement thresholds: 0.35 (fundamental matrix), 2.0 (homography)
FundamentalRefinementThreshold == <<7, 20>>
HomographyRefinementThreshold == <<2, 1>>
\* testHomographyFitting: magsac.setReferenceThreshold(2.0)
HomographyReferenceThreshold == <<2, 1>>
\* setIterationLimit(1e4)
IterationLimit == 10000
\* the exponent of the inlier ratio in the printed iteration number
TheoreticalExponent == 4

(***************************************************************************)
(* What the collaborators can hand back (the inputs of the model).         *)
(***************************************************************************)
\* focal-length entries of an intrinsics file
FocalLengths == {1, 1000}
\* residuals (px) of a correspondence against an estimated model
PixelResiduals == {<<1, 1>>, <<4, 1>>}
\* residuals of a normalized correspondence against an essential matrix
NormalizedResiduals == {<<1, 1000>>, <<1, 125>>}
\* residuals (px) against the model fitted to the reference inliers
FitResiduals == {<<1, 10>>, <<3, 1>>}
\* the scene name of a direct call of an evaluation function
DirectScenes == {"fountain"}

Labelings(n) == [1..n -> {0, 1}]

(***************************************************************************)
(* The estimator and engine contracts consumed by the harness.             *)
(***************************************************************************)
\* minimal sample sizes of the three estimators
SampleSize(family) == CASE family = "homography" -> 4
                        [] family = "fundamental matrix" -> 7
                        [] family = "essential matrix" -> 5

\* MAGSAC(): the engine as constructed
NewMagsac == [maximum_threshold |-> <<10, 1>>,
              reference_threshold |-> <<1, 1>>,
              iteration_limit |-> 0,
              runs |-> 0]

\* estimator.squaredResidual(point, model), r being estimator.residual(point, model)
squaredResidual(r) == RatMul(r, r)

RECURSIVE SubsetFrom(_, _, _)
SubsetFrom(labeling_, label_, i) ==
    IF i > Len(labeling_) THEN <<>>
    ELSE (IF labeling_[i] = label_ THEN <<i>> ELSE <<>>)
         \o SubsetFrom(labeling_, label_, i + 1)
\* getSubsetFromLabeling: the indices whose label is label_
getSubsetFromLabeling(labeling_, label_) == SubsetFrom(labeling_, label_, 1)

\* refineManualLabeling: fit holds each correspondence's residual against the
\* model fitted to the correspondences labelled 1; a correspondence is an
\* inlier iff its residual is at most the threshold
refineManualLabeling(labeling_, fit, threshold_) ==
    [i \in 1..Len(labeling_) |-> IF RatLeq(fit[i], threshold_) THEN 1 ELSE 0]

\* MAGSAC::getModelInliersMask: a pure function of the residuals and the threshold
getModelInliersMask(res, threshold_) ==
    [i \in 1..Len(res) |-> RatLeq(res[i], threshold_)]

\* std::count(mask.begin(), mask.end(), true)
CountTrue(mask) == Cardinality({i \in 1..Len(mask) : mask[i]})

(***************************************************************************)
(* getAvailableTestScenes                                                  *)
(***************************************************************************)
HomogrScenes == <<"LePoint1", "LePoint2", "LePoint3", "graf", "ExtremeZoom", "city",
                  "CapitalRegion", "BruggeTower", "BruggeSquare", "BostonLib",
                  "boat", "adam", "WhiteBoard", "Eiffel", "Brussels", "Boston">>
ExtremeviewScenes == <<"extremeview/adam", "extremeview/cafe", "extremeview/cat",
                       "extremeview/dum", "extremeview/face", "extremeview/fox",
                       "extremeview/girl", "extremeview/graf", "extremeview/grand",
                       "extremeview/index", "extremeview/mag", "extremeview/pkk",
                       "extremeview/shop", "extremeview/there", "extremeview/vin">>
Kusvod2Scenes == <<"corr", "booksh", "box", "castle", "graff", "head", "kampa",
                   "leafs", "plant", "rotunda", "shout", "valbonne", "wall", "wash",
                   "zoom", "Kyoto">>
AdelaidermfScenes == <<"barrsmith", "bonhall", "bonython", "elderhalla", "elderhallb",
                       "hartley", "johnssonb", "ladysymon", "library", "napiera",
                       "napierb", "nese", "oldclassicswing", "physics", "sene",
                       "unihouse", "unionhouse">>
MultihScenes == <<"boxesandbooks", "glasscaseb", "stairs">>
StrechaScenes == <<"fountain">>

Cut(list) == SubSeq(list, 1, IF Len(list) < MaxScenes THEN Len(list) ELSE MaxScenes)

\* the inner switch of case HomographyScene
HomographySceneCase(dataset_) ==
    CASE dataset_ = "homogr" -> Cut(HomogrScenes)
      [] dataset_ = "extremeview" -> Cut(ExtremeviewScenes)
      [] OTHER -> <<>>

\* the inner switch of case FundamentalMatrixScene
FundamentalMatrixSceneCase(dataset_) ==
    CASE dataset_ = "kusvod2" -> Cut(Kusvod2Scenes)
      [] dataset_ = "adelaidermf" -> Cut(AdelaidermfScenes)
      [] dataset_ = "multih" -> Cut(MultihScenes)
      [] OTHER -> <<>>

\* case EssentialMatrixScene has no default and no break: every dataset but
\* strecha falls through to case HomographyScene
getAvailableTestScenes(scene_type_, dataset_) ==
    CASE scene_type_ = "EssentialMatrixScene" ->
           IF dataset_ = "strecha" THEN Cut(StrechaScenes)
           ELSE HomographySceneCase(dataset_)
      [] scene_type_ = "HomographyScene" -> HomographySceneCase(dataset_)
      [] scene_type_ = "FundamentalMatrixScene" -> FundamentalMatrixSceneCase(dataset_)
      [] OTHER -> <<>>

(***************************************************************************)
(* State.                                                                  *)
(***************************************************************************)
VARIABLES
    rt,      \* the frame of runTest: its parameters, its scene list, its position
    ev,      \* the frame of the evaluation function being executed (loaded_labels
             \* is the labeling the scene file holds, success what the estimator
             \* returned: neither is a variable of the program)
    magsac,  \* the MAGSAC engine object of the evaluation
    statics, \* the function-local statics of the two essential-matrix functions:
             \* the intrinsics paths, "" until their first initialization
    calls,   \* the calls made to the collaborators since the last call or return
             \* of an evaluation function
    out      \* what has been printed since then

vars == <<rt, ev, magsac, statics, calls, out>>

EvaluationFunctions == {"testFundamentalMatrixFitting", "testHomographyFitting",
                        "testEssentialMatrixFitting", "opencvHomographyFitting",
                        "opencvFundamentalMatrixFitting", "opencvEssentialMatrixFitting"}

\* one call of a collaborator: what was called, on which data, with which scalar
Call(op, data, arg) == [op |-> op, data |-> data, arg |-> arg, ret |-> <<>>]
\* a call whose returned value matters: ret is <<1>> for true, <<0>> for false
CallReturning(op, data, arg, ret) ==
    [op |-> op, data |-> data, arg |-> arg, ret |-> IF ret THEN <<1>> ELSE <<0>>]
\* one printed line: its text and the values formatted into it
Line(msg, val) == [msg |-> msg, val |-> val]

NoFrame == [fn |-> "none", pc |-> "idle",
            ransac_confidence_ |-> Zero, maximum_threshold_ |-> Zero,
            threshold_ |-> Zero, test_scene_ |-> "",
            draw_results_ |-> FALSE, drawing_threshold_ |-> Zero,
            with_magsac_post_processing_ |-> FALSE,
            image1 |-> FALSE, image2 |-> FALSE,
            N |-> 0, loaded_labels |-> <<>>,
            ground_truth_labels |-> <<>>, refined_labels |-> <<>>,
            ground_truth_inliers |-> <<>>, refined_inliers |-> <<>>,
            intrinsics_source |-> <<0, 0>>, intrinsics_destination |-> <<0, 0>>,
            normalizing_multiplier |-> Zero,
            normalized_maximum_threshold |-> Zero,
            normalized_drawing_threshold |-> Zero,
            normalized_threshold |-> Zero,
            success |-> FALSE, descriptor_size |-> 0, residuals |-> <<>>,
            obtained_labeling |-> <<>>]

\* the frame of a function at its first statement
Enter(fn, confidence, threshold, scene, draw, drawing, post) ==
    [NoFrame EXCEPT !.fn = fn, !.pc = "load",
                    !.ransac_confidence_ = confidence,
                    !.maximum_threshold_ = threshold,
                    !.threshold_ = threshold,
                    !.test_scene_ = scene,
                    !.draw_results_ = draw,
                    !.drawing_threshold_ = drawing,
                    !.with_magsac_post_processing_ = post]

\* the frame after a return: the locals are gone
Returned == [NoFrame EXCEPT !.fn = ev.fn, !.pc = "returned"]

NoRun == [pc |-> "idle", scene_type_ |-> "", dataset_ |-> "",
          ransac_confidence_ |-> Zero, draw_results_ |-> FALSE,
          drawing_threshold_ |-> Zero, scenes |-> <<>>, i |-> 0]

\* no function-local static has been initialized
NoStatics ==
    [fn \in {"testEssentialMatrixFitting", "opencvEssentialMatrixFitting"} |->
       [source_intrinsics_path |-> "", destination_intrinsics_path |-> ""]]

\* static const std::string path = test_scene_ + suffix: the initializer is
\* evaluated by the first call that reaches the declaration; later calls find
\* the string of that call (the directory prefix is left out)
StaticPath(current, test_scene_, suffix) ==
    IF current = "" THEN test_scene_ \o suffix ELSE current

Init == /\ rt = NoRun
        /\ ev = NoFrame
        /\ magsac = NewMagsac
        /\ statics = NoStatics
        /\ calls = <<>>
        /\ out = <<>>

At(fn, pc) == ev.fn = fn /\ ev.pc = pc

(***************************************************************************)
(* Pieces of the evaluation functions that several of them share.          *)
(***************************************************************************)
\* SwapIfLarger with the comparison turned round
SwapIfSmaller(ground_truth_inliers, refined_inliers) ==
    IF Len(refined_inliers) < Len(ground_truth_inliers)
    THEN <<refined_inliers, ground_truth_inliers>>
    ELSE <<ground_truth_inliers, refined_inliers>>

\* if (refined_inliers.size() > ground_truth_inliers.size()) swap: the pair
\* <<ground_truth_inliers, refined_inliers>> after the statement
SwapIfLarger(ground_truth_inliers, refined_inliers) ==
    IF Len(refined_inliers) > Len(ground_truth_inliers)
    THEN <<refined_inliers, ground_truth_inliers>>
    ELSE <<ground_truth_inliers, refined_inliers>>

\* rmse = sqrt(rmse / inlier_number), rmse being the accumulated sum
RootMeanSquare(sum, inlier_number) == Sqrt(RatDiv(sum, Int2Rat(inlier_number)))

\* the calls of estimator.squaredResidual / estimator.residual of a loop over idx
ResidualCalls(op, data, idx) == IF idx = <<>> THEN <<>> ELSE <<Call(op, data, idx)>>

\* the images after the .png attempt and, when image1 failed, the .jpg attempt
\* (testFundamentalMatrixFitting, the essential-matrix functions)
ImagesFirstChecked(png1, png2, jpg1, jpg2) ==
    IF ~png1 THEN <<jpg1, jpg2>> ELSE <<png1, png2>>

\* the same when either failed image triggers the .jpg attempt (the
\* homography functions, opencvFundamentalMatrixFitting)
ImagesBothChecked(png1, png2, jpg1, jpg2) ==
    IF ~png1 \/ ~png2 THEN <<jpg1, jpg2>> ELSE <<png1, png2>>

\* the imread calls of the two attempts
ImreadCalls(retry) ==
    <<Call("imread", "1.png", <<>>), Call("imread", "2.png", <<>>)>>
    \o (IF retry THEN <<Call("imread", "1.jpg", <<>>), Call("imread", "2.jpg", <<>>)>>
        ELSE <<>>)

IndexList(n) == [i \in 1..n |-> i]

\* ObtainedLabeling with the comparison turned round
ObtainedLabelingAbove(residuals, threshold_) ==
    [i \in 1..Len(residuals) |-> IF RatLeq(threshold_, residuals[i]) THEN 1 ELSE 0]

\* ObtainedLabeling allocating one entry too many
ObtainedLabelingOneMore(residuals, threshold_) ==
    [i \in 1..(Len(residuals) + 1) |->
       IF i <= Len(residuals) /\ RatLeq(residuals[i], threshold_) THEN 1 ELSE 0]

\* the visualization loop: obtained_labeling[i] = 1 iff threshold_ >= residual
ObtainedLabeling(residuals, threshold_) ==
    [i \in 1..Len(residuals) |-> IF RatLeq(residuals[i], threshold_) THEN 1 ELSE 0]

(***************************************************************************)
(* testFundamentalMatrixFitting                                            *)
(***************************************************************************)
testFundamentalMatrixFitting_load ==
    /\ At("testFundamentalMatrixFitting", "load")
    /\ \E png1, png2, jpg1, jpg2 \in BOOLEAN, n \in 0..MaxN :
       \E labels \in Labelings(n) :
         LET image == ImagesFirstChecked(png1, png2, jpg1, jpg2)
             reads == ImreadCalls(~png1)
         IN  IF ~image[1]
             THEN /\ ev' = Returned
                  /\ calls' = calls \o reads
                  /\ out' = Append(out, Line("A problem occured when loading the images", <<>>))
             ELSE IF n = 0
             THEN /\ ev' = Returned
                  /\ calls' = calls \o reads \o <<Call("readAnnotatedPoints", "_pts.txt", <<>>)>>
                  /\ out' = Append(out, Line("A problem occured when loading the annotated points", <<>>))
             ELSE /\ ev' = [ev EXCEPT !.pc = "refine", !.image1 = image[1],
                                      !.image2 = image[2], !.N = n,
                                      !.loaded_labels = labels,
                                      !.ground_truth_labels = labels]
                  /\ calls' = calls \o reads \o <<Call("readAnnotatedPoints", "_pts.txt", <<>>)>>
                  /\ out' = out
    /\ UNCHANGED <<rt, magsac, statics>>

testFundamentalMatrixFitting_refine ==
    /\ At("testFundamentalMatrixFitting", "refine")
    /\ \E fit \in [1..ev.N -> FitResiduals] :
         LET refined_labels == refineManualLabeling(ev.ground_truth_labels, fit,
                                                    FundamentalRefinementThreshold)
             kept == SwapIfLarger(getSubsetFromLabeling(ev.ground_truth_labels, 1),
                                  getSubsetFromLabeling(refined_labels, 1))
             inlier_number == Len(kept[1])
         IN  /\ ev' = [ev EXCEPT !.pc = "run", !.refined_labels = refined_labels,
                                 !.ground_truth_inliers = kept[1],
                                 !.refined_inliers = kept[2]]
             /\ calls' = calls \o
                  <<Call("DefaultFundamentalMatrixEstimator", "", ev.maximum_threshold_),
                    Call("refineManualLabeling", "points", FundamentalRefinementThreshold)>>
             /\ out' = out \o
                  <<Line("Estimated model", <<>>),
                    Line("Number of correspondences loaded", <<Int2Rat(ev.N)>>),
                    Line("Number of ground truth inliers", <<Int2Rat(inlier_number)>>),
                    Line("Theoretical RANSAC iteration number",
                         <<ev.ransac_confidence_, Rat(inlier_number, ev.N),
                           Int2Rat(TheoreticalExponent)>>)>>
    /\ UNCHANGED <<rt, magsac, statics>>

\* testFundamentalMatrixFitting_run without the call of setIterationLimit
testFundamentalMatrixFitting_runUnlimited ==
    /\ At("testFundamentalMatrixFitting", "run")
    /\ \E success \in BOOLEAN, res \in [1..ev.N -> PixelResiduals] :
         /\ magsac' = [NewMagsac EXCEPT !.maximum_threshold = ev.maximum_threshold_,
                                        !.runs = 1]
         /\ calls' = calls \o
              <<Call("UniformSampler", "points", <<>>),
                Call("MAGSAC", "", <<>>),
                Call("setMaximumThreshold", "", ev.maximum_threshold_),
                CallReturning("run", "points", ev.ransac_confidence_, success)>>
         /\ IF ~success
            THEN /\ ev' = Returned
                 /\ out' = out \o <<Line("Actual number of iterations", <<>>),
                                    Line("Elapsed time", <<>>),
                                    Line("No reasonable model has been found.", <<>>)>>
            ELSE /\ ev' = [ev EXCEPT !.pc = "score", !.success = success,
                                     !.descriptor_size = 9, !.residuals = res]
                 /\ out' = out \o <<Line("Actual number of iterations", <<>>),
                                    Line("Elapsed time", <<>>)>>
    /\ UNCHANGED <<rt, statics>>

testFundamentalMatrixFitting_run ==
    /\ At("testFundamentalMatrixFitting", "run")
    /\ \E success \in BOOLEAN, res \in [1..ev.N -> PixelResiduals] :
         /\ magsac' = [NewMagsac EXCEPT !.maximum_threshold = ev.maximum_threshold_,
                                        !.iteration_limit = IterationLimit,
                                        !.runs = 1]
         /\ calls' = calls \o
              <<Call("UniformSampler", "points", <<>>),
                Call("MAGSAC", "", <<>>),
                Call("setMaximumThreshold", "", ev.maximum_threshold_),
                Call("setIterationLimit", "", Int2Rat(IterationLimit)),
                CallReturning("run", "points", ev.ransac_confidence_, success)>>
         /\ IF ~success
            THEN /\ ev' = Returned
                 /\ out' = out \o <<Line("Actual number of iterations", <<>>),
                                    Line("Elapsed time", <<>>),
                                    Line("No reasonable model has been found.", <<>>)>>
            ELSE /\ ev' = [ev EXCEPT !.pc = "score", !.success = success,
                                     !.descriptor_size = 9, !.residuals = res]
                 /\ out' = out \o <<Line("Actual number of iterations", <<>>),
                                    Line("Elapsed time", <<>>)>>
    /\ UNCHANGED <<rt, statics>>

testFundamentalMatrixFitting_score ==
    /\ At("testFundamentalMatrixFitting", "score")
    /\ LET inlier_number == Len(ev.ground_truth_inliers)
           sum == SumOver([i \in 1..ev.N |-> squaredResidual(ev.residuals[i])],
                          ev.ground_truth_inliers)
           rmse == RootMeanSquare(sum, inlier_number)
           inlier_thd == ev.maximum_threshold_
           inliers_mask == getModelInliersMask(ev.residuals, inlier_thd)
           inliers_cnt == CountTrue(inliers_mask)
       IN  /\ calls' = calls
                \o ResidualCalls("squaredResidual", "points", ev.ground_truth_inliers)
                \o <<Call("getModelInliersMask", "points", inlier_thd)>>
           /\ out' = out \o <<Line("RMSE error", <<rmse>>),
                              Line("Number of inliers for threshold",
                                   <<inlier_thd, Int2Rat(inliers_cnt)>>)>>
    /\ ev' = [ev EXCEPT !.pc = "draw"]
    /\ UNCHANGED <<rt, magsac, statics>>

testFundamentalMatrixFitting_draw ==
    /\ At("testFundamentalMatrixFitting", "draw")
    /\ LET obtained_labeling == ObtainedLabeling(ev.residuals, ev.drawing_threshold_)
       IN  calls' = IF ev.draw_results_
                    THEN calls \o ResidualCalls("residual", "points", IndexList(ev.N))
                               \o <<Call("drawMatches", "points", obtained_labeling),
                                    Call("showImage", "", ev.drawing_threshold_)>>
                    ELSE calls
    /\ ev' = Returned
    /\ UNCHANGED <<rt, magsac, statics, out>>

(***************************************************************************)
(* testHomographyFitting                                                   *)
(***************************************************************************)
testHomographyFitting_load ==
    /\ At("testHomographyFitting", "load")
    /\ \E png1, png2, jpg1, jpg2 \in BOOLEAN, n \in 0..MaxN :
       \E labels \in Labelings(n) :
         LET image == ImagesBothChecked(png1, png2, jpg1, jpg2)
             reads == ImreadCalls(~png1 \/ ~png2)
         IN  IF ~image[1] \/ ~image[2]
             THEN /\ ev' = Returned
                  /\ calls' = calls \o reads
                  /\ out' = Append(out, Line("A problem occured when loading the images", <<>>))
             ELSE IF n = 0
             THEN /\ ev' = Returned
                  /\ calls' = calls \o reads \o <<Call("readAnnotatedPoints", "_pts.txt", <<>>)>>
                  /\ out' = Append(out, Line("A problem occured when loading the annotated points", <<>>))
             ELSE /\ ev' = [ev EXCEPT !.pc = "refine", !.image1 = image[1],
                                      !.image2 = image[2], !.N = n,
                                      !.loaded_labels = labels,
                                      !.ground_truth_labels = labels]
                  /\ calls' = calls \o reads \o <<Call("readAnnotatedPoints", "_pts.txt", <<>>)>>
                  /\ out' = out
    /\ UNCHANGED <<rt, magsac, statics>>

testHomographyFitting_refine ==
    /\ At("testHomographyFitting", "refine")
    /\ \E fit \in [1..ev.N -> FitResiduals] :
         LET refined_labels == refineManualLabeling(ev.ground_truth_labels, fit,
                                                    HomographyRefinementThreshold)
             kept == SwapIfLarger(getSubsetFromLabeling(ev.ground_truth_labels, 1),
                                  getSubsetFromLabeling(refined_labels, 1))
             reference_inlier_number == Len(kept[1])
         IN  /\ ev' = [ev EXCEPT !.pc = "run", !.refined_labels = refined_labels,
                                 !.ground_truth_inliers = kept[1],
                                 !.refined_inliers = kept[2]]
             /\ calls' = calls \o
                  <<Call("DefaultHomographyEstimator", "", <<>>),
                    Call("refineManualLabeling", "points", HomographyRefinementThreshold)>>
             /\ out' = out \o
                  <<Line("Estimated model", <<>>),
                    Line("Number of correspondences loaded", <<Int2Rat(ev.N)>>),
                    Line("Number of ground truth inliers",
                         <<Int2Rat(reference_inlier_number)>>),
                    Line("Theoretical RANSAC iteration number",
                         <<ev.ransac_confidence_, Rat(reference_inlier_number, ev.N),
                           Int2Rat(TheoreticalExponent)>>)>>
    /\ UNCHANGED <<rt, magsac, statics>>

\* the value of run is dropped; the function goes on unless the descriptor is empty
testHomographyFitting_run ==
    /\ At("testHomographyFitting", "run")
    /\ \E success \in BOOLEAN, size \in {0, 9}, res \in [1..ev.N -> PixelResiduals] :
         /\ success => size = 9
         /\ magsac' = [NewMagsac EXCEPT !.maximum_threshold = ev.maximum_threshold_,
                                        !.iteration_limit = IterationLimit,
                                        !.reference_threshold = HomographyReferenceThreshold,
                                        !.runs = 1]
         /\ calls' = calls \o
              <<Call("UniformSampler", "points", <<>>),
                Call("MAGSAC", "", <<>>),
                Call("setMaximumThreshold", "", ev.maximum_threshold_),
                Call("setIterationLimit", "", Int2Rat(IterationLimit)),
                Call("setReferenceThreshold", "", HomographyReferenceThreshold),
                CallReturning("run", "points", ev.ransac_confidence_, success)>>
         /\ out' = out \o <<Line("Actual number of iterations", <<>>),
                            Line("Elapsed time", <<>>)>>
         /\ IF size = 0
            THEN ev' = Returned
            ELSE ev' = [ev EXCEPT !.pc = "score", !.success = success,
                                  !.descriptor_size = size, !.residuals = res]
    /\ UNCHANGED <<rt, statics>>

testHomographyFitting_score ==
    /\ At("testHomographyFitting", "score")
    /\ LET reference_inlier_number == Len(ev.ground_truth_inliers)
           sum == SumOver([i \in 1..ev.N |-> squaredResidual(ev.residuals[i])],
                          ev.ground_truth_inliers)
           rmse == RootMeanSquare(sum, reference_inlier_number)
           inlier_thd == ev.maximum_threshold_
           inliers_mask == getModelInliersMask(ev.residuals, inlier_thd)
           inliers_cnt == CountTrue(inliers_mask)
       IN  /\ calls' = calls
                \o ResidualCalls("squaredResidual", "points", ev.ground_truth_inliers)
                \o <<Call("getModelInliersMask", "points", inlier_thd)>>
           /\ out' = out \o <<Line("RMSE error", <<rmse>>),
                              Line("Number of inliers for threshold",
                                   <<inlier_thd, Int2Rat(inliers_cnt)>>)>>
    /\ ev' = [ev EXCEPT !.pc = "draw"]
    /\ UNCHANGED <<rt, magsac, statics>>

\* drawing_threshold_ >= sqrt(residual), a and b being residual and threshold
SqrtLeq(a, b) == RatLeq(a, RatMul(b, b))

testHomographyFitting_draw ==
    /\ At("testHomographyFitting", "draw")
    /\ LET obtained_labeling ==
               [i \in 1..ev.N |->
                  IF SqrtLeq(ev.residuals[i], ev.drawing_threshold_) THEN 1 ELSE 0]
       IN  calls' = IF ev.draw_results_
                    THEN calls \o ResidualCalls("residual", "points", IndexList(ev.N))
                               \o <<Call("drawMatches", "points", obtained_labeling),
                                    Call("showImage", "", ev.drawing_threshold_)>>
                    ELSE calls
    /\ ev' = Returned
    /\ UNCHANGED <<rt, magsac, statics, out>>

(***************************************************************************)
(* testEssentialMatrixFitting                                              *)
(***************************************************************************)
\* NormalizingMultiplier averaging the source camera's focal lengths only
NormalizingMultiplierSourceOnly(intrinsics_source, intrinsics_destination) ==
    RatDiv(One,
           RatDiv(Int2Rat(intrinsics_source[1] + intrinsics_source[2]), Int2Rat(2)))

\* 1.0 / ((K1(0,0) + K1(1,1) + K2(0,0) + K2(1,1)) / 4.0), K = <<K(0,0), K(1,1)>>
NormalizingMultiplier(intrinsics_source, intrinsics_destination) ==
    RatDiv(One,
           RatDiv(Int2Rat(intrinsics_source[1] + intrinsics_source[2]
                          + intrinsics_destination[1] + intrinsics_destination[2]),
                  Int2Rat(4)))

testEssentialMatrixFitting_load ==
    /\ At("testEssentialMatrixFitting", "load")
    /\ \E png1, png2, jpg1, jpg2, source_loaded, destination_loaded \in BOOLEAN,
          n \in 0..MaxN,
          K1 \in FocalLengths \X FocalLengths, K2 \in FocalLengths \X FocalLengths :
         LET image == ImagesFirstChecked(png1, png2, jpg1, jpg2)
             reads == ImreadCalls(~png1)
             source_intrinsics_path ==
                 StaticPath(statics[ev.fn].source_intrinsics_path, ev.test_scene_, "1.K")
             destination_intrinsics_path ==
                 StaticPath(statics[ev.fn].destination_intrinsics_path,
                            ev.test_scene_, "2.K")
         IN  IF ~image[1]
             THEN /\ ev' = Returned
                  /\ calls' = calls \o reads
                  /\ out' = Append(out, Line("A problem occured when loading the images", <<>>))
                  /\ statics' = statics
             ELSE IF ~source_loaded
             THEN /\ ev' = Returned
                  /\ calls' = calls \o reads
                       \o <<Call("readPoints", "_pts.txt", <<>>),
                            Call("loadMatrix", source_intrinsics_path, <<>>)>>
                  /\ out' = Append(out, Line("An error occured when loading the intrinsics camera matrix", <<>>))
                  /\ statics' = [statics EXCEPT
                        ![ev.fn].source_intrinsics_path = source_intrinsics_path]
             ELSE IF ~destination_loaded
             THEN /\ ev' = Returned
                  /\ calls' = calls \o reads
                       \o <<Call("readPoints", "_pts.txt", <<>>),
                            Call("loadMatrix", source_intrinsics_path, <<>>),
                            Call("loadMatrix", destination_intrinsics_path, <<>>)>>
                  /\ out' = Append(out, Line("An error occured when loading the intrinsics camera matrix", <<>>))
                  /\ statics' = [statics EXCEPT
                        ![ev.fn].source_intrinsics_path = source_intrinsics_path,
                        ![ev.fn].destination_intrinsics_path = destination_intrinsics_path]
             ELSE /\ ev' = [ev EXCEPT !.pc = "normalize", !.image1 = image[1],
                                      !.image2 = image[2], !.N = n,
                                      !.intrinsics_source = K1,
                                      !.intrinsics_destination = K2]
                  /\ calls' = calls \o reads
                       \o <<Call("readPoints", "_pts.txt", <<>>),
                            Call("loadMatrix", source_intrinsics_path, <<>>),
                            Call("loadMatrix", destination_intrinsics_path, <<>>)>>
                  /\ out' = out
                  /\ statics' = [statics EXCEPT
                        ![ev.fn].source_intrinsics_path = source_intrinsics_path,
                        ![ev.fn].destination_intrinsics_path = destination_intrinsics_path]
    /\ UNCHANGED <<rt, magsac>>

testEssentialMatrixFitting_normalize ==
    /\ At("testEssentialMatrixFitting", "normalize")
    /\ LET normalizing_multiplier ==
               NormalizingMultiplier(ev.intrinsics_source, ev.intrinsics_destination)
       IN  /\ calls' = Append(calls, Call("normalizeCorrespondences", "points", <<>>))
           /\ IF ev.N = 0
              THEN /\ ev' = Returned
                   /\ out' = Append(out, Line("A problem occured when loading the annotated points", <<>>))
              ELSE /\ ev' = [ev EXCEPT
                        !.pc = "run",
                        !.normalizing_multiplier = normalizing_multiplier,
                        !.normalized_maximum_threshold =
                            RatMul(ev.maximum_threshold_, normalizing_multiplier),
                        !.normalized_drawing_threshold =
                            RatMul(ev.drawing_threshold_, normalizing_multiplier)]
                   /\ out' = out
    /\ UNCHANGED <<rt, magsac, statics>>

\* the value of run is dropped (ev.success only remembers what run returned)
testEssentialMatrixFitting_run ==
    /\ At("testEssentialMatrixFitting", "run")
    /\ \E success \in BOOLEAN, res \in [1..ev.N -> NormalizedResiduals] :
         LET reference == RatMul(NewMagsac.reference_threshold, ev.normalizing_multiplier)
         IN  /\ magsac' = [NewMagsac EXCEPT
                             !.maximum_threshold = ev.normalized_maximum_threshold,
                             !.reference_threshold = reference,
                             !.iteration_limit = IterationLimit,
                             !.runs = 1]
             /\ calls' = calls \o
                  <<Call("DefaultEssentialMatrixEstimator", "", Zero),
                    Call("UniformSampler", "normalized_points", <<>>),
                    Call("MAGSAC", "", <<>>),
                    Call("setMaximumThreshold", "", ev.normalized_maximum_threshold),
                    Call("setReferenceThreshold", "", reference),
                    Call("setIterationLimit", "", Int2Rat(IterationLimit)),
                    CallReturning("run", "normalized_points", ev.ransac_confidence_,
                                  success)>>
             /\ out' = out \o <<Line("Estimated model", <<>>),
                                Line("Number of correspondences loaded", <<Int2Rat(ev.N)>>),
                                Line("Actual number of iterations", <<>>),
                                Line("Elapsed time", <<>>)>>
             /\ ev' = [ev EXCEPT !.pc = "score", !.success = success,
                                 !.descriptor_size = 9, !.residuals = res]
    /\ UNCHANGED <<rt, statics>>

\* raw holds the residuals of the raw correspondences, which is what
\* getModelInliersMask(points, ...) measures
testEssentialMatrixFitting_score ==
    /\ At("testEssentialMatrixFitting", "score")
    /\ \E raw \in [1..ev.N -> PixelResiduals] :
         LET inlier_thd == ev.maximum_threshold_
             inliers_cnt == CountTrue(getModelInliersMask(raw, inlier_thd))
             obtained_labeling ==
                 ObtainedLabeling(ev.residuals, ev.normalized_drawing_threshold)
             inlier_number == Len(getSubsetFromLabeling(obtained_labeling, 1))
         IN  /\ calls' = calls
                  \o <<Call("getModelInliersMask", "points", inlier_thd)>>
                  \o ResidualCalls("residual", "normalized_points", IndexList(ev.N))
             /\ out' = out \o <<Line("Number of inliers for threshold",
                                     <<inlier_thd, Int2Rat(inliers_cnt)>>),
                                Line("Number of points closer than",
                                     <<ev.drawing_threshold_, Int2Rat(inlier_number)>>)>>
             /\ ev' = [ev EXCEPT !.pc = "draw", !.obtained_labeling = obtained_labeling]
    /\ UNCHANGED <<rt, magsac, statics>>

testEssentialMatrixFitting_draw ==
    /\ At("testEssentialMatrixFitting", "draw")
    /\ calls' = IF ev.draw_results_
                THEN calls \o <<Call("drawMatches", "points", ev.obtained_labeling),
                                Call("showImage", "", ev.drawing_threshold_)>>
                ELSE calls
    /\ ev' = Returned
    /\ UNCHANGED <<rt, magsac, statics, out>>

(***************************************************************************)
(* opencvHomographyFitting                                                 *)
(***************************************************************************)
opencvHomographyFitting_load ==
    /\ At("opencvHomographyFitting", "load")
    /\ \E png1, png2, jpg1, jpg2 \in BOOLEAN, n \in 0..MaxN :
       \E labels \in Labelings(n) :
         LET image == ImagesBothChecked(png1, png2, jpg1, jpg2)
             reads == ImreadCalls(~png1 \/ ~png2)
         IN  IF ~image[1] \/ ~image[2]
             THEN /\ ev' = Returned
                  /\ calls' = calls \o reads
                  /\ out' = Append(out, Line("A problem occured when loading the images", <<>>))
             ELSE IF n = 0
             THEN /\ ev' = Returned
                  /\ calls' = calls \o reads \o <<Call("readAnnotatedPoints", "_pts.txt", <<>>)>>
                  /\ out' = Append(out, Line("A problem occured when loading the annotated points", <<>>))
             ELSE /\ ev' = [ev EXCEPT !.pc = "refine", !.image1 = image[1],
                                      !.image2 = image[2], !.N = n,
                                      !.loaded_labels = labels,
                                      !.ground_truth_labels = labels]
                  /\ calls' = calls \o reads \o <<Call("readAnnotatedPoints", "_pts.txt", <<>>)>>
                  /\ out' = out
    /\ UNCHANGED <<rt, magsac, statics>>

opencvHomographyFitting_refine ==
    /\ At("opencvHomographyFitting", "refine")
    /\ \E fit \in [1..ev.N -> FitResiduals] :
         LET refined_labels == refineManualLabeling(ev.ground_truth_labels, fit,
                                                    HomographyRefinementThreshold)
             kept == SwapIfLarger(getSubsetFromLabeling(ev.ground_truth_labels, 1),
                                  getSubsetFromLabeling(refined_labels, 1))
             reference_inlier_number == Len(kept[1])
         IN  /\ ev' = [ev EXCEPT !.pc = "estimate", !.refined_labels = refined_labels,
                                 !.ground_truth_inliers = kept[1],
                                 !.refined_inliers = kept[2]]
             /\ calls' = calls \o
                  <<Call("DefaultHomographyEstimator", "", <<>>),
                    Call("refineManualLabeling", "points", HomographyRefinementThreshold)>>
             /\ out' = out \o
                  <<Line("Estimated model", <<>>),
                    Line("Number of correspondences loaded", <<Int2Rat(ev.N)>>),
                    Line("Number of ground truth inliers",
                         <<Int2Rat(reference_inlier_number)>>)>>
    /\ UNCHANGED <<rt, magsac, statics>>

\* cv::findHomography may return an empty matrix; its data is mapped to a
\* 3x3 matrix either way, so the residuals are whatever that read yields
opencvHomographyFitting_estimate ==
    /\ At("opencvHomographyFitting", "estimate")
    /\ \E size \in {0, 9}, labeling \in Labelings(ev.N),
          res \in [1..ev.N -> PixelResiduals] :
         /\ calls' = calls \o <<Call("findHomography", "points", ev.threshold_),
                                Call("Eigen::Map", "cv_homography", Int2Rat(size))>>
         /\ out' = Append(out, Line("Elapsed time", <<>>))
         /\ ev' = [ev EXCEPT !.pc = "score", !.success = (size # 0),
                             !.descriptor_size = size, !.residuals = res,
                             !.obtained_labeling = labeling]
    /\ UNCHANGED <<rt, magsac, statics>>

opencvHomographyFitting_score ==
    /\ At("opencvHomographyFitting", "score")
    /\ LET reference_inlier_number == Len(ev.ground_truth_inliers)
           sum == SumOver([i \in 1..ev.N |-> squaredResidual(ev.residuals[i])],
                          ev.ground_truth_inliers)
           rmse == RootMeanSquare(sum, reference_inlier_number)
       IN  /\ calls' = calls
                \o ResidualCalls("squaredResidual", "points", ev.ground_truth_inliers)
           /\ out' = out
                \o (IF ev.with_magsac_post_processing_
                    THEN <<Line("The MAGSAC post-processing is not implemented yet.", <<>>)>>
                    ELSE <<>>)
                \o <<Line("RMSE error", <<rmse>>)>>
    /\ ev' = [ev EXCEPT !.pc = "draw"]
    /\ UNCHANGED <<rt, magsac, statics>>

opencvHomographyFitting_draw ==
    /\ At("opencvHomographyFitting", "draw")
    /\ calls' = IF ev.draw_results_
                THEN calls \o <<Call("drawMatches", "points", ev.obtained_labeling),
                                Call("showImage", "", <<>>)>>
                ELSE calls
    /\ ev' = Returned
    /\ UNCHANGED <<rt, magsac, statics, out>>

(***************************************************************************)
(* opencvFundamentalMatrixFitting                                          *)
(***************************************************************************)
opencvFundamentalMatrixFitting_load ==
    /\ At("opencvFundamentalMatrixFitting", "load")
    /\ \E png1, png2, jpg1, jpg2 \in BOOLEAN, n \in 0..MaxN :
       \E labels \in Labelings(n) :
         LET image == ImagesBothChecked(png1, png2, jpg1, jpg2)
             reads == ImreadCalls(~png1 \/ ~png2)
         IN  IF ~image[1] \/ ~image[2]
             THEN /\ ev' = Returned
                  /\ calls' = calls \o reads
                  /\ out' = Append(out, Line("A problem occured when loading the images", <<>>))
             ELSE IF n = 0
             THEN /\ ev' = Returned
                  /\ calls' = calls \o reads \o <<Call("readAnnotatedPoints", "_pts.txt", <<>>)>>
                  /\ out' = Append(out, Line("A problem occured when loading the annotated points", <<>>))
             ELSE /\ ev' = [ev EXCEPT !.pc = "refine", !.image1 = image[1],
                                      !.image2 = image[2], !.N = n,
                                      !.loaded_labels = labels,
                                      !.ground_truth_labels = labels]
                  /\ calls' = calls \o reads \o <<Call("readAnnotatedPoints", "_pts.txt", <<>>)>>
                  /\ out' = out
    /\ UNCHANGED <<rt, magsac, statics>>

\* refineManualLabeling is given ground_truth_labels, not the copy: after it
\* ground_truth_labels holds the refined labels and refined_labels the loaded ones
opencvFundamentalMatrixFitting_refine ==
    /\ At("opencvFundamentalMatrixFitting", "refine")
    /\ \E fit \in [1..ev.N -> FitResiduals] :
         LET refined_labels == ev.ground_truth_labels
             ground_truth_labels == refineManualLabeling(ev.ground_truth_labels, fit,
                                                         FundamentalRefinementThreshold)
             kept == SwapIfLarger(getSubsetFromLabeling(ground_truth_labels, 1),
                                  getSubsetFromLabeling(refined_labels, 1))
             reference_inlier_number == Len(kept[1])
         IN  /\ ev' = [ev EXCEPT !.pc = "estimate",
                                 !.ground_truth_labels = ground_truth_labels,
                                 !.refined_labels = refined_labels,
                                 !.ground_truth_inliers = kept[1],
                                 !.refined_inliers = kept[2]]
             /\ calls' = calls \o
                  <<Call("DefaultFundamentalMatrixEstimator", "", <<>>),
                    Call("refineManualLabeling", "points", FundamentalRefinementThreshold)>>
             /\ out' = out \o
                  <<Line("Estimated model", <<>>),
                    Line("Number of correspondences loaded", <<Int2Rat(ev.N)>>),
                    Line("Number of ground truth inliers",
                         <<Int2Rat(reference_inlier_number)>>)>>
    /\ UNCHANGED <<rt, magsac, statics>>

opencvFundamentalMatrixFitting_estimate ==
    /\ At("opencvFundamentalMatrixFitting", "estimate")
    /\ \E size \in {0, 9}, labeling \in Labelings(ev.N),
          res \in [1..ev.N -> PixelResiduals] :
         /\ calls' = calls \o <<Call("findFundamentalMat", "points", ev.threshold_),
                                Call("Eigen::Map", "cv_fundamental_matrix", Int2Rat(size))>>
         /\ out' = Append(out, Line("Elapsed time", <<>>))
         /\ ev' = [ev EXCEPT !.pc = "score", !.success = (size # 0),
                             !.descriptor_size = size, !.residuals = res,
                             !.obtained_labeling = labeling]
    /\ UNCHANGED <<rt, magsac, statics>>

\* the loop accumulates estimator.residual
opencvFundamentalMatrixFitting_score ==
    /\ At("opencvFundamentalMatrixFitting", "score")
    /\ LET reference_inlier_number == Len(ev.ground_truth_inliers)
           sum == SumOver(ev.residuals, ev.ground_truth_inliers)
           rmse == RootMeanSquare(sum, reference_inlier_number)
       IN  /\ calls' = calls
                \o ResidualCalls("residual", "points", ev.ground_truth_inliers)
           /\ out' = out
                \o (IF ev.with_magsac_post_processing_
                    THEN <<Line("Post-processing is not implemented yet.", <<>>)>>
                    ELSE <<>>)
                \o <<Line("RMSE error", <<rmse>>)>>
    /\ ev' = [ev EXCEPT !.pc = "draw"]
    /\ UNCHANGED <<rt, magsac, statics>>

opencvFundamentalMatrixFitting_draw ==
    /\ At("opencvFundamentalMatrixFitting", "draw")
    /\ calls' = IF ev.draw_results_
                THEN calls \o <<Call("drawMatches", "points", ev.obtained_labeling),
                                Call("showImage", "", <<>>)>>
                ELSE calls
    /\ ev' = Returned
    /\ UNCHANGED <<rt, magsac, statics, out>>

(***************************************************************************)
(* opencvEssentialMatrixFitting                                            *)
(***************************************************************************)
\* threshold_ / ((K1(0,0) + K1(1,1) + K2(0,0) + K2(1,1)) / 4.0)
NormalizedThreshold(threshold_, intrinsics_source, intrinsics_destination) ==
    RatDiv(threshold_,
           RatDiv(Int2Rat(intrinsics_source[1] + intrinsics_source[2]
                          + intrinsics_destination[1] + intrinsics_destination[2]),
                  Int2Rat(4)))

opencvEssentialMatrixFitting_load ==
    /\ At("opencvEssentialMatrixFitting", "load")
    /\ \E png1, png2, jpg1, jpg2, source_loaded, destination_loaded \in BOOLEAN,
          n \in 0..MaxN,
          K1 \in FocalLengths \X FocalLengths, K2 \in FocalLengths \X FocalLengths :
         LET image == ImagesFirstChecked(png1, png2, jpg1, jpg2)
             reads == ImreadCalls(~png1)
             source_intrinsics_path ==
                 StaticPath(statics[ev.fn].source_intrinsics_path, ev.test_scene_, "1.K")
             destination_intrinsics_path ==
                 StaticPath(statics[ev.fn].destination_intrinsics_path,
                            ev.test_scene_, "2.K")
         IN  IF ~image[1]
             THEN /\ ev' = Returned
                  /\ calls' = calls \o reads
                  /\ out' = Append(out, Line("A problem occured when loading the images", <<>>))
                  /\ statics' = statics
             ELSE IF ~source_loaded
             THEN /\ ev' = Returned
                  /\ calls' = calls \o reads
                       \o <<Call("readPoints", "_pts.txt", <<>>),
                            Call("loadMatrix", source_intrinsics_path, <<>>)>>
                  /\ out' = Append(out, Line("An error occured when loading the intrinsics camera matrix", <<>>))
                  /\ statics' = [statics EXCEPT
                        ![ev.fn].source_intrinsics_path = source_intrinsics_path]
             ELSE IF ~destination_loaded
             THEN /\ ev' = Returned
                  /\ calls' = calls \o reads
                       \o <<Call("readPoints", "_pts.txt", <<>>),
                            Call("loadMatrix", source_intrinsics_path, <<>>),
                            Call("loadMatrix", destination_intrinsics_path, <<>>)>>
                  /\ out' = Append(out, Line("An error occured when loading the intrinsics camera matrix", <<>>))
                  /\ statics' = [statics EXCEPT
                        ![ev.fn].source_intrinsics_path = source_intrinsics_path,
                        ![ev.fn].destination_intrinsics_path = destination_intrinsics_path]
             ELSE /\ ev' = [ev EXCEPT !.pc = "normalize", !.image1 = image[1],
                                      !.image2 = image[2], !.N = n,
                                      !.intrinsics_source = K1,
                                      !.intrinsics_destination = K2]
                  /\ calls' = calls \o reads
                       \o <<Call("readPoints", "_pts.txt", <<>>),
                            Call("loadMatrix", source_intrinsics_path, <<>>),
                            Call("loadMatrix", destination_intrinsics_path, <<>>)>>
                  /\ out' = out
                  /\ statics' = [statics EXCEPT
                        ![ev.fn].source_intrinsics_path = source_intrinsics_path,
                        ![ev.fn].destination_intrinsics_path = destination_intrinsics_path]
    /\ UNCHANGED <<rt, magsac>>

opencvEssentialMatrixFitting_normalize ==
    /\ At("opencvEssentialMatrixFitting", "normalize")
    /\ calls' = Append(calls, Call("normalizeCorrespondences", "points", <<>>))
    /\ ev' = [ev EXCEPT !.pc = "estimate",
                        !.normalized_threshold =
                            NormalizedThreshold(ev.threshold_, ev.intrinsics_source,
                                                ev.intrinsics_destination)]
    /\ UNCHANGED <<rt, magsac, statics, out>>

opencvEssentialMatrixFitting_estimate ==
    /\ At("opencvEssentialMatrixFitting", "estimate")
    /\ \E size \in {0, 9}, labeling \in Labelings(ev.N) :
         /\ calls' = calls \o <<Call("findEssentialMat", "normalized_points",
                                     ev.normalized_threshold),
                                Call("Eigen::Map", "cv_essential_matrix", Int2Rat(size))>>
         /\ out' = Append(out, Line("Elapsed time", <<>>))
         /\ ev' = [ev EXCEPT !.pc = "draw", !.success = (size # 0),
                             !.descriptor_size = size,
                             !.obtained_labeling = labeling]
    /\ UNCHANGED <<rt, magsac, statics>>

opencvEssentialMatrixFitting_draw ==
    /\ At("opencvEssentialMatrixFitting", "draw")
    /\ LET inlier_number == Len(getSubsetFromLabeling(ev.obtained_labeling, 1))
       IN  out' = Append(out, Line("Number of points closer than",
                                   <<ev.threshold_, Int2Rat(inlier_number)>>))
    /\ calls' = IF ev.draw_results_
                THEN calls \o <<Call("drawMatches", "points", ev.obtained_labeling),
                                Call("showImage", "", ev.threshold_)>>
                ELSE calls
    /\ ev' = Returned
    /\ UNCHANGED <<rt, magsac, statics>>

(***************************************************************************)
(* runTest                                                                 *)
(***************************************************************************)
\* the call of the OpenCV baseline for the scene
opencvCall(scene) ==
    CASE rt.scene_type_ = "HomographyScene" ->
           Enter("opencvHomographyFitting", rt.ransac_confidence_,
                 rt.drawing_threshold_, scene, FALSE, Zero, FALSE)
      [] rt.scene_type_ = "FundamentalMatrixScene" ->
           Enter("opencvFundamentalMatrixFitting", rt.ransac_confidence_,
                 rt.drawing_threshold_, scene, FALSE, Zero, FALSE)
      [] rt.scene_type_ = "EssentialMatrixScene" ->
           Enter("opencvEssentialMatrixFitting", rt.ransac_confidence_,
                 rt.drawing_threshold_, scene, FALSE, Zero, FALSE)

\* the call of MAGSAC for the scene
magsacCall(scene) ==
    CASE rt.scene_type_ = "HomographyScene" ->
           Enter("testHomographyFitting", rt.ransac_confidence_,
                 <<50, 1>>, scene, FALSE, HomographyDrawingThreshold, FALSE)
      [] rt.scene_type_ = "FundamentalMatrixScene" ->
           Enter("testFundamentalMatrixFitting", rt.ransac_confidence_,
                 <<5, 1>>, scene, rt.draw_results_, rt.drawing_threshold_, FALSE)
      [] rt.scene_type_ = "EssentialMatrixScene" ->
           Enter("testEssentialMatrixFitting", rt.ransac_confidence_,
                 <<5, 1>>, scene, FALSE, rt.drawing_threshold_, FALSE)

\* runTest is called: the scene list is fetched
runTest ==
    /\ rt.pc = "idle" /\ ev.pc = "idle"
    /\ \E scene_type_ \in SceneTypes, dataset_ \in Datasets,
          draw_results_ \in BOOLEAN, drawing_threshold_ \in DrawingThresholds :
         rt' = [NoRun EXCEPT !.pc = "loop",
                             !.scene_type_ = scene_type_,
                             !.dataset_ = dataset_,
                             !.ransac_confidence_ = ransac_confidence,
                             !.draw_results_ = draw_results_,
                             !.drawing_threshold_ = drawing_threshold_,
                             !.scenes = getAvailableTestScenes(scene_type_, dataset_),
                             !.i = 1]
    /\ UNCHANGED <<ev, magsac, statics, calls, out>>

\* the head of the loop body, up to the call of the OpenCV baseline
runTest_opencv ==
    /\ rt.pc = "loop" /\ rt.i <= Len(rt.scenes)
    /\ calls' = <<Call("destroyAllWindows", "", <<>>)>>
    /\ out' = <<Line("estimation on scene", <<>>),
                Line("1. Running OpenCV's RANSAC with threshold", <<rt.drawing_threshold_>>)>>
    /\ ev' = opencvCall(rt.scenes[rt.i])
    /\ rt' = [rt EXCEPT !.pc = "opencv"]
    /\ UNCHANGED <<magsac, statics>>

\* the baseline has returned: the call of MAGSAC
runTest_magsac ==
    /\ rt.pc = "opencv" /\ ev.pc = "returned"
    /\ calls' = <<>>
    /\ out' = <<Line("2. Running MAGSAC with maximum threshold",
                     <<magsacCall(rt.scenes[rt.i]).maximum_threshold_>>)>>
    /\ ev' = magsacCall(rt.scenes[rt.i])
    /\ rt' = [rt EXCEPT !.pc = "magsac"]
    /\ UNCHANGED <<magsac, statics>>

\* MAGSAC has returned: the end of the loop body
runTest_waitKey ==
    /\ rt.pc = "magsac" /\ ev.pc = "returned"
    /\ out' = <<Line("Press a button to continue.", <<>>)>>
    /\ calls' = <<Call("waitKey", "", Zero)>>
    /\ rt' = [rt EXCEPT !.pc = "waitKey"]
    /\ UNCHANGED <<ev, magsac, statics>>

\* runTest_next leaving the loop counter where it is
runTest_nextSameScene ==
    /\ rt.pc = "waitKey"
    /\ rt' = [rt EXCEPT !.pc = "loop"]
    /\ UNCHANGED <<ev, magsac, statics, calls, out>>

\* the user presses a key: the next scene
runTest_next ==
    /\ rt.pc = "waitKey"
    /\ rt' = [rt EXCEPT !.pc = "loop", !.i = rt.i + 1]
    /\ UNCHANGED <<ev, magsac, statics, calls, out>>

\* the scene list is exhausted
runTest_return ==
    /\ rt.pc = "loop" /\ rt.i > Len(rt.scenes)
    /\ rt' = [rt EXCEPT !.pc = "done"]
    /\ UNCHANGED <<ev, magsac, statics, calls, out>>

(***************************************************************************)
(* An evaluation function called on its own.                               *)
(***************************************************************************)
MagsacFunctions == {"testFundamentalMatrixFitting", "testHomographyFitting",
                    "testEssentialMatrixFitting"}
OpencvFunctions == EvaluationFunctions \ MagsacFunctions

DirectCall_magsac ==
    /\ rt.pc = "idle" /\ ev.pc = "idle"
    /\ \E fn \in MagsacFunctions, scene \in DirectScenes, draw \in BOOLEAN,
          maximum \in MaximumThresholds, drawing \in DrawingThresholds :
         ev' = Enter(fn, ransac_confidence, maximum, scene, draw, drawing, FALSE)
    /\ rt' = [rt EXCEPT !.pc = "direct"]
    /\ UNCHANGED <<magsac, statics, calls, out>>

DirectCall_opencv ==
    /\ rt.pc = "idle" /\ ev.pc = "idle"
    /\ \E fn \in OpencvFunctions, scene \in DirectScenes, draw \in BOOLEAN,
          post \in BOOLEAN, threshold \in DrawingThresholds \cup MaximumThresholds :
         /\ fn = "opencvEssentialMatrixFitting" => ~post
         /\ ev' = Enter(fn, ransac_confidence, threshold, scene, draw, Zero, post)
    /\ rt' = [rt EXCEPT !.pc = "direct"]
    /\ UNCHANGED <<magsac, statics, calls, out>>

Next ==
    \/ runTest
    \/ runTest_opencv
    \/ runTest_magsac
    \/ runTest_waitKey
    \/ runTest_next
    \/ runTest_return
    \/ DirectCall_magsac
    \/ DirectCall_opencv
    \/ testFundamentalMatrixFitting_load
    \/ testFundamentalMatrixFitting_refine
    \/ testFundamentalMatrixFitting_run
    \/ testFundamentalMatrixFitting_score
    \/ testFundamentalMatrixFitting_draw
    \/ testHomographyFitting_load
    \/ testHomographyFitting_refine
    \/ testHomographyFitting_run
    \/ testHomographyFitting_score
    \/ testHomographyFitting_draw
    \/ testEssentialMatrixFitting_load
    \/ testEssentialMatrixFitting_normalize
    \/ testEssentialMatrixFitting_run
    \/ testEssentialMatrixFitting_score
    \/ testEssentialMatrixFitting_draw
    \/ opencvHomographyFitting_load
    \/ opencvHomographyFitting_refine
    \/ opencvHomographyFitting_estimate
    \/ opencvHomographyFitting_score
    \/ opencvHomographyFitting_draw
    \/ opencvFundamentalMatrixFitting_load
    \/ opencvFundamentalMatrixFitting_refine
    \/ opencvFundamentalMatrixFitting_estimate
    \/ opencvFundamentalMatrixFitting_score
    \/ opencvFundamentalMatrixFitting_draw
    \/ opencvEssentialMatrixFitting_load
    \/ opencvEssentialMatrixFitting_normalize
    \/ opencvEssentialMatrixFitting_estimate
    \/ opencvEssentialMatrixFitting_draw

Spec == Init /\ [][Next]_vars

(***************************************************************************)
(* Vocabulary of the properties.                                           *)
(***************************************************************************)
RefiningFunctions == {"testFundamentalMatrixFitting", "testHomographyFitting",
                      "opencvHomographyFitting", "opencvFundamentalMatrixFitting"}
Family(fn) == CASE fn \in {"testHomographyFitting", "opencvHomographyFitting"} ->
                     "homography"
                [] fn \in {"testFundamentalMatrixFitting",
                           "opencvFundamentalMatrixFitting"} -> "fundamental matrix"
                [] OTHER -> "essential matrix"
\* the function is executing (its locals exist)
Live == ev.pc \notin {"idle", "returned"}
\* the tie-break has been executed
AfterTieBreak == ev.fn \in RefiningFunctions /\ ev.pc \in {"run", "estimate", "score", "draw"}
\* the scoring statements have been executed
AfterScore == ev.pc = "draw"
Called(op) == \E i \in 1..Len(calls) : calls[i].op = op
Printed(msg) == \E k \in 1..Len(out) : out[k].msg = msg
\* the number of 1s of a labeling
InlierCount(labeling) == Cardinality({i \in 1..Len(labeling) : labeling[i] = 1})
Max(a, b) == IF a >= b THEN a ELSE b
\* the mean of the four focal-length entries
MeanFocalLength(K1, K2) == Rat(K1[1] + K1[2] + K2[1] + K2[2], 4)
\* a pixel threshold divided once by the mean focal length
OnceNormalized(T, K1, K2) == RatDiv(T, MeanFocalLength(K1, K2))

(***************************************************************************)
(* C1.  After the tie-break the ground-truth inlier set is the inlier set  *)
(* of the reference labeling or of the refined labeling, whichever is      *)
(* larger, so it has at least as many inliers as the reference labeling    *)
(* the scene file holds.                                                   *)
(***************************************************************************)
C1_TieBreakKeepsLarger ==
    AfterTieBreak =>
      LET reference == InlierCount(ev.loaded_labels)
          one == getSubsetFromLabeling(ev.ground_truth_labels, 1)
          other == getSubsetFromLabeling(ev.refined_labels, 1)
      IN  /\ ev.loaded_labels \in {ev.ground_truth_labels, ev.refined_labels}
          /\ ev.ground_truth_inliers \in {one, other}
          /\ Len(ev.ground_truth_inliers) = Max(Len(one), Len(other))
          /\ Len(ev.ground_truth_inliers) >= reference

\* the refinement found more inliers than the file holds, and they were kept
C1_Witness ==
    /\ AfterTieBreak
    /\ ev.fn = "opencvFundamentalMatrixFitting"
    /\ Len(ev.ground_truth_inliers) > InlierCount(ev.loaded_labels)
    /\ InlierCount(ev.loaded_labels) > 0

(***************************************************************************)
(* C2.  In a MAGSAC evaluation, once run has returned false the rest of    *)
(* the scene is skipped: no squaredResidual or residual call, no inlier    *)
(* mask and no RMSE line follows the failed run.                           *)
(***************************************************************************)
C2_FailedRunShortCircuits ==
    ev.fn \in MagsacFunctions =>
      \A i \in 1..Len(calls) :
        (calls[i].op = "run" /\ calls[i].ret = <<0>>) =>
          /\ \A j \in (i + 1)..Len(calls) :
               calls[j].op \notin {"squaredResidual", "residual", "getModelInliersMask"}
          /\ ~Printed("RMSE error")

(***************************************************************************)
(* C3.  With fewer reference inliers than the minimal sample size of the   *)
(* model family, a MAGSAC evaluation stops at the refinement: neither the  *)
(* engine nor the RMSE scoring is reached.                                 *)
(***************************************************************************)
C3_DegenerateRefinementAborts ==
    (/\ ev.fn \in {"testFundamentalMatrixFitting", "testHomographyFitting"}
     /\ Live
     /\ Called("refineManualLabeling")
     /\ InlierCount(ev.loaded_labels) < SampleSize(Family(ev.fn))) =>
      /\ ~Called("run")
      /\ ~Called("squaredResidual")
      /\ ~Printed("RMSE error")

(***************************************************************************)
(* C4.  With an empty ground-truth inlier set no RMSE value is printed:    *)
(* the accumulated sum is never divided by a zero inlier count.            *)
(***************************************************************************)
C4_NoRmseOfEmptyGroundTruth ==
    (ev.fn \in RefiningFunctions /\ AfterScore /\ ev.ground_truth_inliers = <<>>) =>
      /\ ~Printed("RMSE error")
      /\ \A k \in 1..Len(out) : out[k].val # <<NaN>>

(***************************************************************************)
(* C5.  In testEssentialMatrixFitting every threshold given to the engine  *)
(* (setMaximumThreshold, setReferenceThreshold, getModelInliersMask) and   *)
(* the threshold of the reported labeling is a pixel threshold divided     *)
(* exactly once by the mean focal length.                                  *)
(***************************************************************************)
C5_ThresholdsNormalizedOnce ==
    (ev.fn = "testEssentialMatrixFitting" /\ ev.pc \in {"run", "score", "draw"}) =>
      LET K1 == ev.intrinsics_source
          K2 == ev.intrinsics_destination
      IN  /\ ev.normalized_drawing_threshold = OnceNormalized(ev.drawing_threshold_, K1, K2)
          /\ \A i \in 1..Len(calls) :
               /\ calls[i].op = "setMaximumThreshold" =>
                    calls[i].arg = OnceNormalized(ev.maximum_threshold_, K1, K2)
               /\ calls[i].op = "setReferenceThreshold" =>
                    calls[i].arg = OnceNormalized(NewMagsac.reference_threshold, K1, K2)
               /\ calls[i].op = "getModelInliersMask" =>
                    calls[i].arg \in {OnceNormalized(ev.maximum_threshold_, K1, K2),
                                      OnceNormalized(ev.drawing_threshold_, K1, K2)}

(***************************************************************************)
(* C6.  In testEssentialMatrixFitting the sampler, run, getModelInliersMask*)
(* and estimator.residual are given the normalized correspondences; the    *)
(* raw correspondences go to the visualization only.                       *)
(***************************************************************************)
C6_EngineGetsNormalizedPoints ==
    ev.fn = "testEssentialMatrixFitting" =>
      \A i \in 1..Len(calls) :
        /\ calls[i].op \in {"UniformSampler", "run", "getModelInliersMask", "residual"} =>
             calls[i].data = "normalized_points"
        /\ calls[i].data = "points" =>
             calls[i].op \in {"normalizeCorrespondences", "drawMatches"}

(***************************************************************************)
(* C7.  The normalized threshold is the raw threshold divided by the mean  *)
(* of the four focal-length entries, in testEssentialMatrixFitting and in  *)
(* opencvEssentialMatrixFitting; with every focal length 1000, 3.0 becomes *)
(* 0.003 and 5.0 becomes 0.005.                                            *)
(***************************************************************************)
C7_NormalizedThresholdValue ==
    LET K1 == ev.intrinsics_source
        K2 == ev.intrinsics_destination
        unit == K1 = <<1000, 1000>> /\ K2 = <<1000, 1000>>
        Expected(T, normalized) ==
            /\ normalized = RatDiv(T, MeanFocalLength(K1, K2))
            /\ (unit /\ T = <<3, 1>>) => normalized = Rat(3, 1000)
            /\ (unit /\ T = <<5, 1>>) => normalized = Rat(5, 1000)
    IN  /\ (ev.fn = "testEssentialMatrixFitting" /\ ev.pc \in {"run", "score", "draw"}) =>
             /\ Expected(ev.maximum_threshold_, ev.normalized_maximum_threshold)
             /\ Expected(ev.drawing_threshold_, ev.normalized_drawing_threshold)
        /\ (ev.fn = "opencvEssentialMatrixFitting" /\ ev.pc \in {"estimate", "draw"}) =>
             Expected(ev.threshold_, ev.normalized_threshold)

\* focal lengths of 1000: MAGSAC is configured with 0.005 and labels with 0.003
C7_Witness ==
    /\ ev.fn = "testEssentialMatrixFitting"
    /\ ev.pc = "score"
    /\ ev.intrinsics_source = <<1000, 1000>>
    /\ ev.intrinsics_destination = <<1000, 1000>>
    /\ ev.maximum_threshold_ = <<5, 1>>
    /\ ev.drawing_threshold_ = <<3, 1>>
    /\ magsac.maximum_threshold = <<1, 200>>
    /\ ev.normalized_drawing_threshold = <<3, 1000>>

(***************************************************************************)
(* C8.  Every RMSE printed, by a MAGSAC evaluation or by an OpenCV one, is  *)
(* the square root of the mean, over the ground-truth inliers kept by the  *)
(* tie-break, of the squared residual against the model.                   *)
(***************************************************************************)
C8_RmseOfSquaredResiduals ==
    (ev.fn \in RefiningFunctions /\ AfterScore) =>
      LET squares == [i \in 1..ev.N |-> RatMul(ev.residuals[i], ev.residuals[i])]
          mean == RatDiv(SumOver(squares, ev.ground_truth_inliers),
                         Int2Rat(Len(ev.ground_truth_inliers)))
      IN  \A k \in 1..Len(out) :
            out[k].msg = "RMSE error" => out[k].val = <<Sqrt(mean)>>

(***************************************************************************)
(* C9.  The inlier count a MAGSAC evaluation prints is the number of       *)
(* correspondences whose residual is at most the drawing threshold; being  *)
(* a function of the model's residuals and the drawing threshold alone, it *)
(* is the same for every maximum threshold.                                *)
(***************************************************************************)
C9_CountAtDrawingThreshold ==
    (ev.fn \in MagsacFunctions /\ AfterScore) =>
      LET threshold == IF ev.fn = "testEssentialMatrixFitting"
                       THEN ev.normalized_drawing_threshold
                       ELSE ev.drawing_threshold_
          count == Cardinality({i \in 1..ev.N : RatLeq(ev.residuals[i], threshold)})
      IN  \A k \in 1..Len(out) :
            out[k].msg \in {"Number of inliers for threshold",
                            "Number of points closer than"} =>
              out[k].val[2] = Int2Rat(count)

(***************************************************************************)
(* C10.  The drawing threshold of runTest is never the inlier-outlier      *)
(* threshold, nor any other parameter, of an estimator run for the scene:  *)
(* no estimator is given it, raw or normalized.                            *)
(***************************************************************************)
C10_DrawingThresholdNotFitted ==
    (rt.pc \in {"opencv", "magsac"} /\ Live) =>
      \A i \in 1..Len(calls) :
        calls[i].op \in {"findHomography", "findFundamentalMat", "findEssentialMat",
                         "setMaximumThreshold", "setReferenceThreshold", "run"} =>
          /\ calls[i].arg # rt.drawing_threshold_
          /\ ev.fn \in {"testEssentialMatrixFitting", "opencvEssentialMatrixFitting"} =>
               calls[i].arg # OnceNormalized(rt.drawing_threshold_,
                                             ev.intrinsics_source,
                                             ev.intrinsics_destination)

(***************************************************************************)
(* C11.  The intrinsics files an essential-matrix evaluation loads for     *)
(* scene S are S's own files S1.K and S2.K, whichever scenes were          *)
(* evaluated by earlier calls.                                             *)
(***************************************************************************)
C11_IntrinsicsOfTheScene ==
    (ev.fn \in {"testEssentialMatrixFitting", "opencvEssentialMatrixFitting"}
       /\ ev.pc = "normalize") =>
      \A i \in 1..Len(calls) :
        calls[i].op = "loadMatrix" =>
          calls[i].data \in {ev.test_scene_ \o "1.K", ev.test_scene_ \o "2.K"}

(***************************************************************************)
(* C12.  An evaluation function gets past its image check only with both   *)
(* images of the scene loaded: when one of them is still missing after the *)
(* .png and the .jpg attempt, no correspondence file is read and no        *)
(* estimator is reached.                                                   *)
(***************************************************************************)
C12_BothImagesOrReturn ==
    (ev.fn \in EvaluationFunctions /\ ev.pc \notin {"load", "returned"}) =>
      ev.image1 /\ ev.image2

(***************************************************************************)
(* C13.  An evaluation that loaded zero correspondences is skipped with    *)
(* the diagnostic: it makes no normalization, refinement, estimator or     *)
(* engine call on the empty set.                                           *)
(***************************************************************************)
C13_EmptyDataSkipped ==
    LET Computing == {"normalizeCorrespondences", "refineManualLabeling", "run",
                      "findHomography", "findFundamentalMat", "findEssentialMat"}
        empty == \/ Printed("A problem occured when loading the annotated points")
                 \/ (ev.fn \in EvaluationFunctions /\ ev.pc \notin {"load", "returned"}
                       /\ ev.N = 0)
    IN  empty => \A i \in 1..Len(calls) : calls[i].op \notin Computing

(***************************************************************************)
(* C14.  Refinement leaves the reference labeling as it was loaded: after  *)
(* refineManualLabeling the reference label array of a refining function   *)
(* still equals the labeling the scene file holds.                         *)
(***************************************************************************)
C14_ReferenceLabelsUnchanged ==
    AfterTieBreak => ev.ground_truth_labels = ev.loaded_labels

(***************************************************************************)
(* C15.  runTest processes the scenes of the catalog one at a time, in     *)
(* catalog order, and no outcome of a scene (load failure, empty data,     *)
(* engine failure) ends or blocks the run: both evaluations of scene i are *)
(* called on scenes[i]; the loop counter only moves from i to i + 1, when  *)
(* the wait of scene i is acknowledged; every step of a run brings it      *)
(* closer to its end (RunMeasure decreases) and a run that has not ended   *)
(* always has a next statement; it ends with every scene processed.  With  *)
(* each wait acknowledged, a started run therefore ends after processing   *)
(* every scene exactly once.                                               *)
(***************************************************************************)
\* what is left of a run: scenes, then statements of the loop body, then
\* statements of the evaluation function being executed
RunMeasure ==
    LET scenes_left == IF rt.i <= Len(rt.scenes) THEN Len(rt.scenes) + 1 - rt.i ELSE 0
        body_left == CASE rt.pc = "loop" -> 4
                       [] rt.pc = "opencv" -> 3
                       [] rt.pc = "magsac" -> 2
                       [] rt.pc = "waitKey" -> 1
                       [] OTHER -> 0
        function_left == CASE ev.pc = "load" -> 5
                           [] ev.pc \in {"refine", "normalize"} -> 4
                           [] ev.pc \in {"run", "estimate"} -> 3
                           [] ev.pc = "score" -> 2
                           [] ev.pc = "draw" -> 1
                           [] OTHER -> 0
    IN  scenes_left * 50 + body_left * 10 + function_left

\* the positions of an evaluation function: each is the guard of one action of
\* the function, or the position after its return
Statements(fn) ==
    IF fn \in {"testEssentialMatrixFitting"}
    THEN {"load", "normalize", "run", "score", "draw", "returned"}
    ELSE IF fn = "opencvEssentialMatrixFitting"
    THEN {"load", "normalize", "estimate", "draw", "returned"}
    ELSE IF fn \in MagsacFunctions
    THEN {"load", "refine", "run", "score", "draw", "returned"}
    ELSE {"load", "refine", "estimate", "score", "draw", "returned"}

C16_WaitOnlyWhenDrawing ==
    (rt.pc = "waitKey" /\ Called("waitKey")) => rt.draw_results_

(***************************************************************************)
(* C17.  The theoretical iteration bound a MAGSAC evaluation prints is     *)
(* computed with the exponent k equal to the minimal sample size of the    *)
(* model family it estimates.                                              *)
(***************************************************************************)
C17_ExponentIsSampleSize ==
    ev.fn \in MagsacFunctions =>
      \A k \in 1..Len(out) :
        out[k].msg = "Theoretical RANSAC iteration number" =>
          out[k].val[3] = Int2Rat(SampleSize(Family(ev.fn)))

(***************************************************************************)
(* C18.  For the residuals of one model and any two thresholds T1 < T2,    *)
(* every correspondence the harness labels an inlier at T1 is labelled an  *)
(* inlier at T2, so the number labelled at T1 is at most the number        *)
(* labelled at T2.  In testEssentialMatrixFitting the labeling the         *)
(* function obtained is one of the two.                                    *)
(***************************************************************************)
C18_InliersGrowWithThreshold ==
    (ev.fn \in {"testFundamentalMatrixFitting", "testEssentialMatrixFitting"}
       /\ ev.pc = "draw") =>
      LET Thresholds == DrawingThresholds \cup MaximumThresholds \cup PixelResiduals
                          \cup NormalizedResiduals
                          \cup {ev.drawing_threshold_, ev.maximum_threshold_,
                                ev.normalized_drawing_threshold,
                                ev.normalized_maximum_threshold}
          Within(L1, L2) == \A i \in 1..ev.N : L1[i] = 1 => L2[i] = 1
      IN  /\ \A T1, T2 \in Thresholds :
               (RatLeq(T1, T2) /\ T1 # T2) =>
                 /\ Within(ObtainedLabeling(ev.residuals, T1),
                           ObtainedLabeling(ev.residuals, T2))
                 /\ InlierCount(ObtainedLabeling(ev.residuals, T1))
                      <= InlierCount(ObtainedLabeling(ev.residuals, T2))
          /\ ev.fn = "testEssentialMatrixFitting" =>
               \A T \in Thresholds :
                 /\ RatLeq(T, ev.normalized_drawing_threshold) =>
                      Within(ObtainedLabeling(ev.residuals, T), ev.obtained_labeling)
                 /\ RatLeq(ev.normalized_drawing_threshold, T) =>
                      Within(ev.obtained_labeling, ObtainedLabeling(ev.residuals, T))

\* a correspondence of residual 4 px: an outlier at the drawing threshold, an
\* inlier at the larger maximum threshold
C18_Witness ==
    /\ ev.fn = "testFundamentalMatrixFitting"
    /\ ev.pc = "draw"
    /\ ev.N >= 1
    /\ RatLeq(ev.drawing_threshold_, ev.maximum_threshold_)
    /\ InlierCount(ObtainedLabeling(ev.residuals, ev.drawing_threshold_))
         < InlierCount(ObtainedLabeling(ev.residuals, ev.maximum_threshold_))

(***************************************************************************)
(* C19.  Normalizing a threshold twice never gives the value normalizing   *)
(* it once gives: for every threshold and intrinsics pair of               *)
(* testEssentialMatrixFitting, applying the normalization again to a       *)
(* normalized threshold changes it.                                        *)
(***************************************************************************)
C19_TwiceDiffersFromOnce ==
    (ev.fn = "testEssentialMatrixFitting" /\ ev.pc \in {"run", "score", "draw"}) =>
      /\ RatMul(ev.normalized_maximum_threshold, ev.normalizing_multiplier)
           # ev.normalized_maximum_threshold
      /\ RatMul(ev.normalized_drawing_threshold, ev.normalizing_multiplier)
           # ev.normalized_drawing_threshold

C21_LabelingByPlainResidual ==
    [][(/\ ev.fn \in MagsacFunctions
        /\ ev.pc = "draw"
        /\ ev.draw_results_
        /\ ev'.pc = "returned") =>
         LET drawing == IF ev.fn = "testEssentialMatrixFitting"
                        THEN ev.normalized_drawing_threshold
                        ELSE ev.drawing_threshold_
         IN  \A i \in 1..Len(calls') :
               calls'[i].op = "drawMatches" =>
                 calls'[i].arg = ObtainedLabeling(ev.residuals, drawing)]_vars

(***************************************************************************)
(* C22.  A MAGSAC evaluation constructs one engine of its own, sets its    *)
(* maximum threshold and its iteration limit (10000) before calling run,   *)
(* calls run exactly once on it, and calls getModelInliersMask only after  *)
(* run has returned.                                                       *)
(***************************************************************************)
C22_EngineCallOrder ==
    ev.fn \in MagsacFunctions =>
      LET At_(op) == {i \in 1..Len(calls) : calls[i].op = op}
      IN  /\ Cardinality(At_("MAGSAC")) <= 1
          /\ Cardinality(At_("run")) <= 1
          /\ \A r \in At_("run") :
               /\ \E c \in At_("MAGSAC"), m \in At_("setMaximumThreshold"),
                     l \in At_("setIterationLimit") :
                    /\ c < m /\ m < r
                    /\ c < l /\ l < r
                    /\ calls[l].arg = <<10000, 1>>
               /\ magsac.iteration_limit = 10000
               /\ magsac.maximum_threshold = calls[CHOOSE m \in At_("setMaximumThreshold") : TRUE].arg
               /\ magsac.runs = 1
          /\ \A g \in At_("getModelInliersMask") : \E r \in At_("run") : r < g
          /\ ev.pc \in {"score", "draw"} => Cardinality(At_("run")) = 1

\* the second scene of a run: its own engine has run once and its inlier mask
\* has been taken
C22_Witness ==
    /\ ev.fn \in MagsacFunctions
    /\ rt.pc = "magsac" /\ rt.i = 2
    /\ ev.pc = "draw"
    /\ Called("getModelInliersMask")
    /\ magsac.runs = 1

(***************************************************************************)
(* C23.  The scene list runTest fetches is non-empty only when the dataset *)
(* belongs to the scene type (essential: strecha; homography: homogr,      *)
(* extremeview; fundamental: kusvod2, adelaidermf, multih), so no model    *)
(* family is evaluated on another family's scenes.                         *)
(***************************************************************************)
C23_ScenesOnlyOfOwnFamily ==
    LET Belongs(scene_type_, dataset_) ==
            \/ scene_type_ = "EssentialMatrixScene" /\ dataset_ = "strecha"
            \/ scene_type_ = "HomographyScene" /\ dataset_ \in {"homogr", "extremeview"}
            \/ scene_type_ = "FundamentalMatrixScene"
                 /\ dataset_ \in {"kusvod2", "adelaidermf", "multih"}
    IN  rt.pc \notin {"idle", "direct"} =>
          /\ rt.scenes = getAvailableTestScenes(rt.scene_type_, rt.dataset_)
          /\ rt.scenes # <<>> => Belongs(rt.scene_type_, rt.dataset_)

(***************************************************************************)
(* C24.  The MAGSAC evaluation runTest calls gets runTest's own            *)
(* visualization settings: its draw flag is draw_results_ and its drawing  *)
(* threshold is drawing_threshold_, for every scene type.                  *)
(***************************************************************************)
C24_SettingsPassedUnchanged ==
    (rt.pc = "magsac" /\ ev.pc # "returned") =>
      /\ ev.draw_results_ = rt.draw_results_
      /\ ev.drawing_threshold_ = rt.drawing_threshold_

(***************************************************************************)
(* C25.  When the OpenCV estimator returned an empty matrix, the baseline  *)
(* evaluation does not map the matrix data to a 3x3 matrix and computes no *)
(* RMSE from it.                                                           *)
(***************************************************************************)
C25_EmptyModelNotRead ==
    (/\ ev.fn \in OpencvFunctions
     /\ ev.pc \in {"score", "draw"}
     /\ ev.descriptor_size = 0) =>
      /\ ~Called("Eigen::Map")
      /\ ~Called("squaredResidual")
      /\ ~Called("residual")
      /\ ~Printed("RMSE error")

=============================================================================
